---- MODULE Spec2Model ----
(***************************************************************************)
(* Model of radiology_impressions.py: the prompt record file, the          *)
(* per-study reference documents, prompt assembly with the token ceiling,  *)
(* and the script run of one interactive session.                          *)
(*                                                                         *)
(* Text.  A Python str is a sequence of items.  An item is either one      *)
(* character ("a", " ", "{", ...) or a run: a string in angle brackets     *)
(* that stands for a fixed stretch of text holding no brace, described by  *)
(* its number of whitespace-separated words and by whether it starts and   *)
(* ends with whitespace.  Runs let a 92,000-word document be one item, so  *)
(* that the 120,000-token ceiling is reached with the real numbers.        *)
(***************************************************************************)
EXTENDS Integers, Sequences, FiniteSets, TLC

(***************************************************************************)
(* Bounds of the model.                                                    *)
(***************************************************************************)
\* longest template, in segments, given to the assembly specification
MaxSegs == 3
\* longest document text, in segments, given to the assembly specification
MaxDocSegs == 1

(***************************************************************************)
(* Text items.                                                             *)
(***************************************************************************)
\* the stretch of DEFAULT_PROMPT before the placeholder (lines 58-74)
DEFAULT_HEAD == "<default prompt, head>"
\* the stretch of DEFAULT_PROMPT after the placeholder (lines 76-78)
DEFAULT_TAIL == "<default prompt, tail>"
\* the literal of line 401
NO_DOCUMENT == "<No reference document available for this study type.>"
\* the literal of line 464
IMPRESSION_HINT == "<Generated impression will appear here...>"
\* "=" * 80 (lines 147, 149)
RULE80 == "<= * 80>"
\* the literal of line 148
REFERENCE_TITLE == "<REFERENCE DOCUMENT - COMPLETE CONTENT>"
\* document bodies of 5, 92,000 and 92,400 words, "w w ... w"
WORDS_FEW == "<5 words>"
WORDS_MID == "<92000 words>"
WORDS_BIG == "<92400 words>"

Runs == {DEFAULT_HEAD, DEFAULT_TAIL, NO_DOCUMENT, IMPRESSION_HINT, RULE80,
         REFERENCE_TITLE, WORDS_FEW, WORDS_MID, WORDS_BIG}

IsRun(item) == item \in Runs

\* how many words str.split() finds in the run
RunWords(item) ==
    CASE item = DEFAULT_HEAD     -> 127
      [] item = DEFAULT_TAIL     -> 11
      [] item = NO_DOCUMENT      -> 8
      [] item = IMPRESSION_HINT  -> 5
      [] item = RULE80           -> 1
      [] item = REFERENCE_TITLE  -> 5
      [] item = WORDS_FEW        -> 5
      [] item = WORDS_MID        -> 92000
      [] item = WORDS_BIG        -> 92400

\* DEFAULT_PROMPT has a newline right before and right after the placeholder
RunStartsSpace(item) == item = DEFAULT_TAIL
RunEndsSpace(item) == item = DEFAULT_HEAD

IsSpace(item) == item \in {" ", "\n", "\t"}

\* "{document_content}", character by character (lines 267, 271, 406)
PLACEHOLDER ==
    <<"{", "d", "o", "c", "u", "m", "e", "n", "t", "_",
      "c", "o", "n", "t", "e", "n", "t", "}">>

\* lines 58-78
DEFAULT_PROMPT == <<DEFAULT_HEAD>> \o PLACEHOLDER \o <<DEFAULT_TAIL>>

(***************************************************************************)
(* str methods.                                                            *)
(***************************************************************************)
\* text[i:i+n] = pat, as str.find compares
MatchAt(text, pat, i) ==
    /\ i + Len(pat) - 1 <= Len(text)
    /\ \A k \in 1..Len(pat) : text[i + k - 1] = pat[k]

\* pat in text
Contains(text, pat) == \E i \in 1..Len(text) : MatchAt(text, pat, i)

RECURSIVE ReplaceFrom(_, _, _, _)
\* the scan of str.replace from position i: copy up to the leftmost match,
\* put new for it, go on after the match (what was put in is not scanned)
ReplaceFrom(text, old, new, i) ==
    IF i > Len(text) THEN <<>>
    ELSE IF MatchAt(text, old, i)
         THEN new \o ReplaceFrom(text, old, new, i + Len(old))
         ELSE <<text[i]>> \o ReplaceFrom(text, old, new, i + 1)

RECURSIVE ReplaceFirstFrom(_, _, _, _)
\* str.replace(old, new, 1): only the leftmost match
ReplaceFirstFrom(text, old, new, i) ==
    IF i > Len(text) THEN <<>>
    ELSE IF MatchAt(text, old, i)
         THEN new \o SubSeq(text, i + Len(old), Len(text))
         ELSE <<text[i]>> \o ReplaceFirstFrom(text, old, new, i + 1)

str_replace_first(text, old, new) == ReplaceFirstFrom(text, old, new, 1)

\* text.replace(old, new), old non-empty
str_replace(text, old, new) == ReplaceFrom(text, old, new, 1)

RECURSIVE CountWordsFrom(_, _, _)
\* len(text.split()): the maximal stretches without whitespace
CountWordsFrom(text, i, inWord) ==
    IF i > Len(text) THEN 0
    ELSE LET item == text[i] IN
         IF IsRun(item)
         THEN (IF inWord /\ ~RunStartsSpace(item)
               THEN RunWords(item) - 1 ELSE RunWords(item))
              + CountWordsFrom(text, i + 1, ~RunEndsSpace(item))
         ELSE IF IsSpace(item)
         THEN CountWordsFrom(text, i + 1, FALSE)
         ELSE (IF inWord THEN 0 ELSE 1) + CountWordsFrom(text, i + 1, TRUE)

WordCount(text) == CountWordsFrom(text, 1, FALSE)

RECURSIVE LStrip(_)
LStrip(text) ==
    IF text # <<>> /\ IsSpace(Head(text)) THEN LStrip(Tail(text)) ELSE text

RECURSIVE RStrip(_)
RStrip(text) ==
    IF text # <<>> /\ IsSpace(text[Len(text)])
    THEN RStrip(SubSeq(text, 1, Len(text) - 1)) ELSE text

\* text.strip()
str_strip(text) == RStrip(LStrip(text))

\* count_tokens_estimate(text) * 10: len(text.split()) * 1.3, in tenths
count_tokens_estimate_x10(text) == WordCount(text) * 13


(***************************************************************************)
(* Study types and the universe of inputs.                                 *)
(***************************************************************************)
\* "CT Head/Brain", of DEFAULT_STUDIES (line 38)
CT_HEAD_BRAIN ==
    <<"C", "T", " ", "H", "e", "a", "d", "/", "B", "r", "a", "i", "n">>
\* "CT Head Brain", a study type added to studies.yaml by hand (line 328)
CT_HEAD_BRAIN_2 ==
    <<"C", "T", " ", "H", "e", "a", "d", " ", "B", "r", "a", "i", "n">>
\* "MRCP", of DEFAULT_STUDIES (line 51)
MRCP == <<"M", "R", "C", "P">>

\* lists studies.yaml can hold (load_studies_from_yaml returns what it
\* holds): two names that differ in one substituted character, and the
\* same with a third name
StudiesPair == {CT_HEAD_BRAIN, CT_HEAD_BRAIN_2}
StudiesTriple == {CT_HEAD_BRAIN, CT_HEAD_BRAIN_2, MRCP}

\* a template with the placeholder
TEMPLATE_WITH == <<"R", ":", " ">> \o PLACEHOLDER
\* a template without it
TEMPLATE_WITHOUT == <<"R", "u", "l", "e", "s">>
\* the prompts an operator types into the prompt editor (line 258)
Templates == {TEMPLATE_WITH, TEMPLATE_WITHOUT}

\* the text docx2txt finds in the uploaded files: a few words with blank
\* lines around them, 92,000 words, 92,400 words, and a file with no
\* paragraph at all
Uploads == {<<"\n", WORDS_FEW, "\n">>, <<WORDS_MID>>, <<WORDS_BIG>>, <<>>}

\* the texts the API answers with (message.content), one of them blank
Answers == {<<"a", "\n">>, <<" ">>}

\* the texts a user types into the impression field
Edits == {<<"e">>, <<>>}

(***************************************************************************)
(* Files.                                                                  *)
(***************************************************************************)
\* no file at the path
NoFile == [kind |-> "none", raw |-> <<>>]
\* a file that open(..., 'w') truncated and whose write did not complete
PartialFile == [kind |-> "partial", raw |-> <<>>]
\* a complete .docx file, by the text docx2txt extracts from it
DocxFile(raw) == [kind |-> "docx", raw |-> raw]

\* PROMPTS_FILE absent, truncated, or holding json.dump(prompts)
NoPrompts == [kind |-> "none", map |-> <<>>]
PartialPrompts == [kind |-> "partial", map |-> <<>>]
JsonPrompts(map) == [kind |-> "json", map |-> map]

\* the outcomes of "with open(path, 'w') as f: write": done, open() raised
\* (nothing touched), the write raised after open() truncated the file
WriteOutcomes == {"ok", "open_fails", "write_fails"}

\* the file after "with open(path, 'w') as f: write(content)"
WriteFile(before, content, partial, outcome) ==
    CASE outcome = "ok"          -> content
      [] outcome = "open_fails"  -> before
      [] outcome = "write_fails" -> partial

DOCX2TXT_AVAILABLE == TRUE
DOCX_AVAILABLE == TRUE

(***************************************************************************)
(* PromptStore.                                                            *)
(***************************************************************************)
\* load_study_prompts(): the mapping of the file; {} when the file is
\* absent or json.load raises
load_study_prompts(file) ==
    IF file.kind # "none"
    THEN IF file.kind = "json" THEN file.map ELSE <<>>
    ELSE <<>>

\* prompts[study_name] = prompt
DictSet(map, key, value) ==
    [k \in DOMAIN map \cup {key} |-> IF k = key THEN value ELSE map[k]]

\* save_study_prompt(study_name, prompt): the file afterwards and the
\* value returned
save_study_prompt(file, study_name, prompt, outcome) ==
    LET prompts == DictSet(load_study_prompts(file), study_name, prompt)
    IN  [file |-> WriteFile(file, JsonPrompts(prompts), PartialPrompts, outcome),
         ok |-> outcome = "ok"]

\* get_study_prompt(study_name): prompts.get(study_name, DEFAULT_PROMPT)
get_study_prompt(file, study_name) ==
    LET prompts == load_study_prompts(file)
    IN  IF study_name \in DOMAIN prompts THEN prompts[study_name]
        ELSE DEFAULT_PROMPT

(***************************************************************************)
(* DocumentStore.                                                          *)
(***************************************************************************)
\* get_study_document_path(study_name): the file name under DOCUMENTS_DIR
get_study_document_path(study_name) ==
    LET safe_name == str_replace(str_replace(study_name, <<"/">>, <<"_">>),
                                 <<" ">>, <<"_">>)
    IN  safe_name \o <<".docx">>

\* get_study_document_path over the study names of the model, as a table
\* (the names are few and every run asks for their paths)
DocumentPath == [s \in StudiesTriple |-> get_study_document_path(s)]

\* the paths of the documents of a list of studies
Paths(studies) == {DocumentPath[s] : s \in studies}

\* doc_path.exists()
path_exists(docs, path) == docs[path].kind # "none"

\* save_study_document(study_name, uploaded_file): the files afterwards
\* and the value returned
save_study_document(docs, study_name, uploaded_file, outcome) ==
    LET doc_path == DocumentPath[study_name]
    IN  [docs |-> [docs EXCEPT ![doc_path] =
                       WriteFile(docs[doc_path], DocxFile(uploaded_file),
                                 PartialFile, outcome)],
         ok |-> outcome = "ok"]

\* the mutant: the unlink is skipped
remove_document_noop(docs, study_name, outcome) ==
    [docs |-> docs, ok |-> outcome = "ok"]

\* doc_path.unlink() in its try block: the files afterwards, and whether
\* it raised
remove_document(docs, study_name, outcome) ==
    LET doc_path == DocumentPath[study_name]
    IN  [docs |-> IF outcome = "ok" THEN [docs EXCEPT ![doc_path] = NoFile]
                  ELSE docs,
         ok |-> outcome = "ok"]

\* the rendering of a document without paragraphs and tables by the
\* python-docx branch: "\n".join of the four header lines
StructuredEmpty ==
    <<RULE80, "\n", REFERENCE_TITLE, "\n", RULE80, "\n">>

\* load_document_content(file_path)
load_document_content(docs, path) ==
    IF ~path_exists(docs, path) THEN <<>>
    ELSE IF docs[path].kind = "partial" THEN <<>>       \* the except branch
    ELSE LET content == docs[path].raw IN
         IF DOCX2TXT_AVAILABLE /\ content # <<>> /\ str_strip(content) # <<>>
         THEN str_strip(content)
         ELSE IF DOCX_AVAILABLE THEN StructuredEmpty
         ELSE <<>>


(***************************************************************************)
(* State.                                                                  *)
(***************************************************************************)
VARIABLES
    STUDIES_LIST,   \* the study types loaded at startup (line 221)
    prompts_file,   \* PROMPTS_FILE
    documents,      \* the files of DOCUMENTS_DIR, by path
    session,        \* st.session_state: impression_text, document_used,
                    \* prompt_used, token_usage
    edit_impression, \* the "Editable Impression" text area of the browser
    form,           \* submit, study_type and openai_api_key of the last
                    \* script run (lines 226, 343, 379)
    api_requests,   \* the requests the last script run sent to
                    \* chat.completions.create
    history,        \* kept by the store specifications only: the last
                    \* store operation, and per study the prompt of its
                    \* last save that returned True
    writers,        \* the config sessions inside save_study_prompt
    assembly        \* a template, a document text and their assembly

vars == <<STUDIES_LIST, prompts_file, documents, session, edit_impression,
          form, api_requests, history, writers, assembly>>

\* line 412
TOKEN_CEILING == 120000

(***************************************************************************)
(* One run of the script, top to bottom.                                   *)
(***************************************************************************)
\* the mutant: a failed call is made once more
chat_completions_create_retry(system_prompt, study_type, outcome) ==
    LET request == [system |-> system_prompt, study |-> study_type]
    IN  IF outcome.ok THEN <<request>> ELSE <<request, request>>

\* lines 422-434 and 453: the requests the try block sends
chat_completions_create(system_prompt, study_type, outcome) ==
    <<[system |-> system_prompt, study |-> study_type]>>

\* the mutant: the ceiling is the 128k context window of the models
within_ceiling_128k(total_tokens_x10) == ~(total_tokens_x10 > 128000 * 10)

\* line 412, negated: the else branch is taken
within_ceiling(total_tokens_x10) == ~(total_tokens_x10 > TOKEN_CEILING * 10)

\* the mutant: nothing is put in when there is no document
document_for_prompt_none(docs, doc_path) ==
    IF path_exists(docs, doc_path) THEN load_document_content(docs, doc_path)
    ELSE <<>>

\* lines 396-401: document_content
document_for_prompt(docs, doc_path) ==
    IF path_exists(docs, doc_path) THEN load_document_content(docs, doc_path)
    ELSE <<NO_DOCUMENT>>

\* lines 390-456, the impression generation block: the session state and
\* the requests sent.  outcome is what the API does if it is called:
\* [ok |-> TRUE, content |-> text], or ok |-> FALSE when create raises
generate(state, files, docs, submit, openai_api_key, study_type, outcome) ==
    IF ~(submit /\ openai_api_key) THEN [state |-> state, requests |-> <<>>]
    ELSE
    LET study_prompt_template == get_study_prompt(files, study_type)
        doc_path == DocumentPath[study_type]
        document_content == document_for_prompt(docs, doc_path)
        document_used == IF path_exists(docs, doc_path)
                         THEN document_content ELSE <<>>
        system_prompt == str_replace(study_prompt_template, PLACEHOLDER,
                                     document_content)
        loaded == [state EXCEPT !.document_used = document_used,
                                !.prompt_used = system_prompt]
        total_tokens_x10 == count_tokens_estimate_x10(system_prompt)
    IN  IF ~within_ceiling(total_tokens_x10)
        THEN [state |-> loaded, requests |-> <<>>]
        ELSE [state |-> IF outcome.ok
                        THEN [loaded EXCEPT
                                 !.impression_text = str_strip(outcome.content),
                                 !.token_usage = TRUE]
                        ELSE loaded,
              requests |-> chat_completions_create(system_prompt, study_type,
                                                   outcome)]

\* lines 462-467: what st.text_area returns.  The widget is told apart by
\* its arguments: with the value argument of the run before it returns
\* what the browser holds, with another one it starts again from value
text_area(widget, value) ==
    IF widget.shown /\ widget.value = value THEN widget.text ELSE value

\* lines 459-470: the session state and the widget after the display
display(state, widget) ==
    LET value == IF state.impression_text # <<>> THEN state.impression_text
                 ELSE <<IMPRESSION_HINT>>
        impression_area == text_area(widget, value)
    IN  [state |-> IF impression_area # state.impression_text
                   THEN [state EXCEPT !.impression_text = impression_area]
                   ELSE state,
         widget |-> [shown |-> TRUE, value |-> value, text |-> impression_area]]

\* what the API can do with a request
Outcomes == {[ok |-> TRUE, content |-> a] : a \in Answers}
            \cup {[ok |-> FALSE, content |-> <<>>]}
NoCall == [ok |-> FALSE, content |-> <<>>]
NoStudy == <<>>

FormValues(submit, study_type, openai_api_key) ==
    [submit |-> submit, study_type |-> study_type,
     openai_api_key |-> openai_api_key]
\* a run that the form's button did not start
NoForm == FormValues(FALSE, NoStudy, FALSE)

\* a whole run of the script over the stores as the config panel left them
ScriptRun(files, docs, submit, openai_api_key, study_type, outcome) ==
    LET g == generate(session, files, docs, submit, openai_api_key,
                      study_type, outcome)
        d == display(g.state, edit_impression)
    IN  /\ session' = d.state
        /\ edit_impression' = d.widget
        /\ form' = IF submit THEN FormValues(TRUE, study_type, openai_api_key)
                   ELSE NoForm
        /\ api_requests' = g.requests

\* the page has been rendered: its buttons can be pressed
Loaded == edit_impression.shown

Op(name, study, ok) == [name |-> name, study |-> study, ok |-> ok]

(***************************************************************************)
(* Operations of the interactive session.                                  *)
(***************************************************************************)
\* the page is loaded, or a widget that changes nothing is touched
Render ==
    /\ ScriptRun(prompts_file, documents, FALSE, FALSE, NoStudy, NoCall)
    /\ UNCHANGED <<STUDIES_LIST, prompts_file, documents, history, writers,
                   assembly>>

\* lines 281-286: "Save Prompt" in configuration mode.  On success
\* st.rerun() starts the script again, otherwise the run goes on: either
\* way the page is rendered once with the file as the save left it
SavePromptButton(study, prompt, outcome) ==
    LET r == save_study_prompt(prompts_file, study, prompt, outcome) IN
    /\ Loaded
    /\ prompts_file' = r.file
    /\ ScriptRun(r.file, documents, FALSE, FALSE, NoStudy, NoCall)
    /\ UNCHANGED <<STUDIES_LIST, documents, writers, assembly>>

\* lines 322-325: "Upload Document"
UploadButton(study, uploaded_file, outcome) ==
    LET r == save_study_document(documents, study, uploaded_file, outcome) IN
    /\ Loaded
    /\ documents' = r.docs
    /\ ScriptRun(prompts_file, r.docs, FALSE, FALSE, NoStudy, NoCall)
    /\ UNCHANGED <<STUDIES_LIST, prompts_file, writers, assembly>>

\* lines 292, 305-311: "Remove Document", shown when the document exists
RemoveButton(study, outcome) ==
    LET r == remove_document(documents, study, outcome) IN
    /\ Loaded
    /\ path_exists(documents, DocumentPath[study])
    /\ documents' = r.docs
    /\ ScriptRun(prompts_file, r.docs, FALSE, FALSE, NoStudy, NoCall)
    /\ UNCHANGED <<STUDIES_LIST, prompts_file, writers, assembly>>

SavePrompt(study, prompt, outcome) ==
    SavePromptButton(study, prompt, outcome) /\ UNCHANGED history

UploadDocument(study, uploaded_file, outcome) ==
    UploadButton(study, uploaded_file, outcome) /\ UNCHANGED history

RemoveDocument(study, outcome) ==
    RemoveButton(study, outcome) /\ UNCHANGED history

\* lines 340-379, 390: "Generate Impression" of the form
SubmitButton(study_type, openai_api_key, outcome) ==
    /\ Loaded
    /\ ScriptRun(prompts_file, documents, TRUE, openai_api_key, study_type,
                 outcome)
    /\ UNCHANGED <<STUDIES_LIST, prompts_file, documents, writers, assembly>>

Submit(study_type, openai_api_key, outcome) ==
    SubmitButton(study_type, openai_api_key, outcome) /\ UNCHANGED history

\* the user types into the impression field and leaves it
EditField(text) ==
    /\ Loaded
    /\ text # edit_impression.text
    /\ LET d == display(session, [edit_impression EXCEPT !.text = text])
       IN  /\ session' = d.state
           /\ edit_impression' = d.widget
    /\ form' = NoForm
    /\ api_requests' = <<>>
    /\ UNCHANGED <<STUDIES_LIST, prompts_file, documents, writers, assembly>>

EditImpression(text) == EditField(text) /\ UNCHANGED history

NoSession ==
    [impression_text |-> <<>>, document_used |-> <<>>, prompt_used |-> <<>>,
     token_usage |-> FALSE]

\* the history of the session's result: whether impression_text holds a
\* generated impression and the system prompt and document text of the
\* submission that produced it, whether a generation or an edit ever took
\* place, whether the value of prompt_used was ever sent to the API
NoResult ==
    [made |-> FALSE, prompt |-> <<>>, document |-> <<>>, touched |-> FALSE,
     prompt_sent |-> FALSE]

NoHistory ==
    [op |-> Op("none", NoStudy, FALSE), last_saved |-> <<>>,
     result |-> NoResult]
Idle == [pc |-> "idle", study |-> NoStudy, prompts |-> <<>>]
NoAssembly == [template |-> <<>>, document |-> <<>>, result |-> <<>>,
               done |-> FALSE]

\* a fresh config directory (lines 26-31) and a session not yet rendered
Start(studies) ==
    /\ STUDIES_LIST = studies
    /\ prompts_file = NoPrompts
    /\ documents = [p \in Paths(studies) |-> NoFile]
    /\ session = NoSession
    /\ edit_impression = [shown |-> FALSE, value |-> <<>>, text |-> <<>>]
    /\ form = NoForm
    /\ api_requests = <<>>
    /\ history = NoHistory
    /\ writers = <<Idle, Idle>>

Init == Start(StudiesPair) /\ assembly = NoAssembly

Next ==
    \/ Render
    \/ \E s \in STUDIES_LIST, t \in Templates, o \in WriteOutcomes :
          SavePrompt(s, t, o)
    \/ \E s \in STUDIES_LIST, u \in Uploads, o \in WriteOutcomes :
          UploadDocument(s, u, o)
    \/ \E s \in STUDIES_LIST, o \in {"ok", "unlink_fails"} :
          RemoveDocument(s, o)
    \/ \E s \in STUDIES_LIST, k \in BOOLEAN, o \in Outcomes : Submit(s, k, o)
    \/ \E e \in Edits : EditImpression(e)

Spec == Init /\ [][Next]_vars


(***************************************************************************)
(* The token ceiling and the API call (specification Spec).                *)
(***************************************************************************)
\* C1: a script run sends a request to the API only if it is a form
\* submission made with an API key whose assembled system prompt, the one
\* the request carries, is estimated (words x 1.3) at no more than 120,000
\* tokens; above 120,000 no request is sent.
C1_CeilingBlocksCall ==
    api_requests # <<>> =>
        /\ form.submit /\ form.openai_api_key
        /\ WordCount(session.prompt_used) * 13 <= 120000 * 10
        /\ \A i \in 1..Len(api_requests) :
              api_requests[i].system = session.prompt_used

\* C1, its case: a submission with a key assembled a prompt above the
\* ceiling and nothing was sent
C1_Witness ==
    /\ form.submit /\ form.openai_api_key
    /\ WordCount(session.prompt_used) * 13 > 120000 * 10
    /\ api_requests = <<>>

\* C2: a script run sends at most one request, also when the request fails
\* (no token usage stored), and after every run of a submission the page is
\* rendered, which is all a new submission needs.
C2_SingleAttempt ==
    /\ Len(api_requests) <= 1
    /\ form.submit => Loaded

\* C2, its case: the one request of the submission failed
C2_Witness ==
    form.submit /\ Len(api_requests) = 1 /\ ~session.token_usage

\* the default template with the literal of line 401 in the placeholder's
\* place
DefaultWithoutDocument == <<DEFAULT_HEAD, NO_DOCUMENT, DEFAULT_TAIL>>

\* the last run was a submission with an API key for a study type that has
\* no reference document and no stored prompt (a submission leaves the
\* stores as they were)
SubmittedBare ==
    /\ form.submit /\ form.openai_api_key
    /\ ~path_exists(documents, DocumentPath[form.study_type])
    /\ form.study_type \notin DOMAIN load_study_prompts(prompts_file)

\* C8: a submission (with an API key) for a study type that has no
\* reference document and no stored prompt sends exactly one request, whose
\* system prompt is the default template with the placeholder replaced by
\* 'No reference document available for this study type.', and leaves
\* document_used empty.
C8_NoDocumentPrompt ==
    SubmittedBare =>
        /\ api_requests = <<[system |-> DefaultWithoutDocument,
                             study |-> form.study_type]>>
        /\ session.document_used = <<>>

\* C8, its case
C8_Witness == SubmittedBare /\ api_requests # <<>>


(***************************************************************************)
(* The stores alone, with their history (SpecPrompts, SpecDocuments).      *)
(***************************************************************************)
Logged(name, study, ok, saved) ==
    history' = [history EXCEPT !.op = Op(name, study, ok),
                               !.last_saved = saved]

SavePromptLogged(study, prompt, outcome) ==
    /\ SavePromptButton(study, prompt, outcome)
    /\ Logged("save_prompt", study, outcome = "ok",
              IF outcome = "ok"
              THEN DictSet(history.last_saved, study, prompt)
              ELSE history.last_saved)

UploadLogged(study, uploaded_file, outcome) ==
    /\ UploadButton(study, uploaded_file, outcome)
    /\ Logged("upload", study, outcome = "ok", history.last_saved)

RemoveLogged(study, outcome) ==
    /\ RemoveButton(study, outcome)
    /\ Logged("remove", study, outcome = "ok", history.last_saved)

InitStores == Start(StudiesTriple) /\ assembly = NoAssembly

\* the prompt record file under any sequence of saves
NextPrompts ==
    \/ Render
    \/ \E s \in STUDIES_LIST, t \in Templates, o \in WriteOutcomes :
          SavePromptLogged(s, t, o)

SpecPrompts == InitStores /\ [][NextPrompts]_vars

\* the reference documents under any sequence of uploads and removes
NextDocuments ==
    \/ Render
    \/ \E s \in STUDIES_LIST, u \in Uploads, o \in WriteOutcomes :
          UploadLogged(s, u, o)
    \/ \E s \in STUDIES_LIST, o \in {"ok", "unlink_fails"} :
          RemoveLogged(s, o)

SpecDocuments == InitStores /\ [][NextDocuments]_vars

\* PromptStore.loadAll and DocumentStore.exists, as the claims use them
Stored(file) == load_study_prompts(file)
DocumentExists(docs, study) ==
    path_exists(docs, DocumentPath[study])
DocumentOf(docs, study) == docs[DocumentPath[study]]

\* C3: a save for study S leaves every other study's stored template as it
\* was: a study that had a stored template before the save has the same
\* one after it.
C3_SaveKeepsOthers ==
    [][\A other \in DOMAIN Stored(prompts_file) :
          (history'.op.name = "save_prompt" /\ history'.op.study # other)
          => /\ other \in DOMAIN Stored(prompts_file')
             /\ Stored(prompts_file')[other] = Stored(prompts_file)[other]]_vars

\* C4: get_study_prompt(S) is the template of the last save for S that
\* returned True, and the default template for a study never saved.
C4_GetReturnsLastSaved ==
    \A s \in STUDIES_LIST :
        get_study_prompt(prompts_file, s) =
            IF s \in DOMAIN history.last_saved THEN history.last_saved[s]
            ELSE DEFAULT_PROMPT

\* C5: right after a save of a document for S that returned True the
\* existence check for S is true, and right after a remove for S that did
\* not raise it is false.
C5_DocumentRoundTrip ==
    \A s \in STUDIES_LIST :
        /\ history.op = Op("upload", s, TRUE) => DocumentExists(documents, s)
        /\ history.op = Op("remove", s, TRUE) => ~DocumentExists(documents, s)

\* C5, its case: a document was saved and then removed
C5_Witness ==
    /\ history.op.name = "remove" /\ history.op.ok
    /\ ~DocumentExists(documents, history.op.study)

\* C6: a save of a document for S that returns False leaves a document
\* stored for S before it stored, with the same content.
C6_FailedSaveKeepsDocument ==
    [][\A s \in STUDIES_LIST :
          ( /\ history'.op = Op("upload", s, FALSE)
            /\ DocumentOf(documents, s).kind = "docx" )
          => DocumentOf(documents', s) = DocumentOf(documents, s)]_vars

\* C7: two distinct study names have distinct document paths, so that a
\* save or a remove of the document of A leaves the document of every
\* other study B as it was.
C7_NoCollision ==
    [][\A a \in STUDIES_LIST, b \in STUDIES_LIST :
          ( /\ a # b
            /\ history'.op.name \in {"upload", "remove"}
            /\ history'.op.study = a )
          => /\ get_study_document_path(a) # get_study_document_path(b)
             /\ DocumentOf(documents', b) = DocumentOf(documents, b)]_vars


(***************************************************************************)
(* Two config sessions saving prompts at once (specification SpecWriters). *)
(* A save is two steps, as two processes interleave them: the load of the  *)
(* whole file (lines 110-111), then the rewrite of the whole file (lines   *)
(* 112-115).  No write fails here, and the rewrite is taken as one step.   *)
(***************************************************************************)
Writers == {1, 2}

\* lines 110-111: prompts = load_study_prompts(); prompts[study_name] = prompt
LoadForSave(w, study, prompt) ==
    /\ writers[w].pc = "idle"
    /\ writers' = [writers EXCEPT ![w] =
          [pc |-> "loaded", study |-> study,
           prompts |-> DictSet(load_study_prompts(prompts_file), study,
                               prompt)]]
    /\ UNCHANGED <<STUDIES_LIST, prompts_file, documents, session,
                   edit_impression, form, api_requests, history, assembly>>

\* lines 112-115: json.dump(prompts, f) over the file, and return True
RewriteFile(w) ==
    /\ writers[w].pc = "loaded"
    /\ prompts_file' = JsonPrompts(writers[w].prompts)
    /\ Logged("save_prompt", writers[w].study, TRUE,
              DictSet(history.last_saved, writers[w].study,
                      writers[w].prompts[writers[w].study]))
    /\ writers' = [writers EXCEPT ![w] = Idle]
    /\ UNCHANGED <<STUDIES_LIST, documents, session, edit_impression, form,
                   api_requests, assembly>>

NextWriters ==
    \/ \E w \in Writers, s \in STUDIES_LIST, t \in Templates :
          LoadForSave(w, s, t)
    \/ \E w \in Writers : RewriteFile(w)

SpecWriters == InitStores /\ [][NextWriters]_vars

\* C10: when no save is under way, the record file holds for every study
\* the template of the last save made to that study.
C10_LastWriterWinsPerStudy ==
    (\A w \in Writers : writers[w].pc = "idle") =>
        \A s \in DOMAIN history.last_saved :
            /\ s \in DOMAIN Stored(prompts_file)
            /\ Stored(prompts_file)[s] = history.last_saved[s]

(***************************************************************************)
(* Prompt assembly as a function (specification SpecAssembly).             *)
(***************************************************************************)
\* pieces of templates: the placeholder, the placeholder short of its
\* closing brace, single characters
TemplateSegments ==
    {PLACEHOLDER, SubSeq(PLACEHOLDER, 1, Len(PLACEHOLDER) - 1),
     <<"{">>, <<"}">>, <<"a">>}

\* pieces of document texts, the placeholder among them
DocumentSegments == {PLACEHOLDER, <<"}">>, <<"d">>, <<WORDS_FEW>>}

RECURSIVE Concatenations(_, _)
\* the texts made of at most n segments
Concatenations(segments, n) ==
    IF n = 0 THEN {<<>>}
    ELSE LET shorter == Concatenations(segments, n - 1)
         IN  shorter \cup {t \o g : t \in shorter, g \in segments}

InitAssembly ==
    /\ Start(StudiesPair)
    /\ assembly \in
          {[template |-> t, document |-> d, result |-> <<>>, done |-> FALSE] :
              t \in Concatenations(TemplateSegments, MaxSegs),
              d \in Concatenations(DocumentSegments, MaxDocSegs)}

\* lines 271 and 406: template.replace("{document_content}", document)
Assemble ==
    /\ ~assembly.done
    /\ assembly' = [assembly EXCEPT
          !.result = str_replace(assembly.template, PLACEHOLDER,
                                 assembly.document),
          !.done = TRUE]
    /\ UNCHANGED <<STUDIES_LIST, prompts_file, documents, session,
                   edit_impression, form, api_requests, history, writers>>

NextAssembly == Assemble

SpecAssembly == InitAssembly /\ [][NextAssembly]_vars

\* where the placeholder stands in a template
Occurrences(template) ==
    {i \in 1..Len(template) : MatchAt(template, PLACEHOLDER, i)}

Greatest(set) == CHOOSE i \in set : \A j \in set : j <= i

RECURSIVE Spliced(_, _, _)
\* the template with the document put at each of the positions, from the
\* last position to the first, everything else kept
Spliced(template, positions, document) ==
    IF positions = {} THEN template
    ELSE LET i == Greatest(positions)
         IN  Spliced(SubSeq(template, 1, i - 1) \o document
                        \o SubSeq(template, i + Len(PLACEHOLDER),
                                  Len(template)),
                     positions \ {i}, document)

\* C9: the assembled prompt is the template itself when the template does
\* not hold the placeholder, and otherwise the template with the document
\* text put in at each place the placeholder stood in the template, the
\* rest kept as it was and the text put in left as it is.
C9_LiteralSubstitution ==
    assembly.done =>
        /\ ~Contains(assembly.template, PLACEHOLDER)
              => assembly.result = assembly.template
        /\ assembly.result =
              Spliced(assembly.template, Occurrences(assembly.template),
                      assembly.document)

\* C9, its case: a template that holds the placeholder twice was assembled
\* with a document that holds the placeholder itself
C9_Witness ==
    /\ assembly.done
    /\ Cardinality(Occurrences(assembly.template)) = 2
    /\ Contains(assembly.document, PLACEHOLDER)
    /\ Contains(assembly.result, PLACEHOLDER)


(***************************************************************************)
(* The session's result with its history (specification SpecSession): the  *)
(* page, the form, the impression field and the documents of the studies.  *)
(***************************************************************************)
\* lines 512 and 518: disabled=not st.session_state.impression_text
export_disabled(state) == state.impression_text = <<>>

SubmitLogged(study_type, openai_api_key, outcome) ==
    /\ SubmitButton(study_type, openai_api_key, outcome)
    /\ LET generated == api_requests' # <<>> /\ outcome.ok
           sent == api_requests' # <<>>
           before == history.result
       IN  history' = [history EXCEPT !.result =
              [made |-> before.made \/ generated,
               prompt |-> IF generated THEN api_requests'[1].system
                          ELSE before.prompt,
               document |-> IF generated THEN session'.document_used
                            ELSE before.document,
               touched |-> before.touched \/ generated,
               prompt_sent |->
                  IF session'.prompt_used = session.prompt_used
                  THEN before.prompt_sent \/ sent ELSE sent]]

EditLogged(text) ==
    /\ EditField(text)
    /\ history' = [history EXCEPT !.result =
          [made |-> FALSE, prompt |-> <<>>, document |-> <<>>,
           touched |-> TRUE, prompt_sent |-> history.result.prompt_sent]]

NextSession ==
    \/ Render
    \/ \E s \in STUDIES_LIST, u \in Uploads, o \in WriteOutcomes :
          UploadDocument(s, u, o)
    \/ \E s \in STUDIES_LIST, o \in {"ok", "unlink_fails"} :
          RemoveDocument(s, o)
    \/ \E s \in STUDIES_LIST, k \in BOOLEAN, o \in Outcomes :
          SubmitLogged(s, k, o)
    \/ \E e \in Edits : EditLogged(e)

SpecSession == Init /\ [][NextSession]_vars

\* C11: as long as the session had no successful generation and no edit of
\* the impression field, impression_text is empty after every run of the
\* script, and the download and copy buttons are disabled.
C11_ImpressionStaysEmpty ==
    ~history.result.touched =>
        /\ session.impression_text = <<>>
        /\ export_disabled(session)

\* C12: while impression_text holds a generated impression, prompt_used and
\* document_used are the system prompt and the document text of the
\* submission that produced it, and a prompt_used that is set was sent to
\* the API.
C12_ResultConsistent ==
    /\ history.result.made =>
          /\ session.prompt_used = history.result.prompt
          /\ session.document_used = history.result.document
    /\ session.prompt_used # <<>> => history.result.prompt_sent

====
